---- MODULE Spec2Model ----
(***************************************************************************)
(* State-machine model of gettimings.c: the timing harness measure(), the  *)
(* eight scenario callbacks and the driver main().                         *)
(*                                                                         *)
(* The benchmark process is one sequential thread; its position is pc.     *)
(* Forked children are separate processes: each runs `_exit(0)` on its own *)
(* schedule (action ChildExit), which is the only concurrency there is.    *)
(* Every monitored OS primitive (clock_gettime, fork, waitpid, mkdtemp,    *)
(* rmdir, system) may succeed or fail; the model takes both outcomes.      *)
(***************************************************************************)
EXTENDS Integers, Sequences, FiniteSets, TLC

\* ------------------------------------------------------------------ bounds
\* Largest iteration count the loops of measure() are run with.
MaxIters == 11
\* Process ids the kernel hands out are 1..MaxPid.
MaxPid == 2
\* The monotonic clock advances by 0..MaxTick between two readings ...
MaxTick == 1
\* ... and is followed up to MaxClock, where it stops advancing.
MaxClock == 3
\* parallelwriteoutput is called with a count of -1..MaxCount.
MaxCount == 2

\* ------------------------------------------------------------------ values
NULL == "NULL"
Pids == 1..MaxPid
Min(a, b) == IF a < b THEN a ELSE b

VARIABLES
    argv,          \* main's argument vector, argv[1] is the program name
    pc,            \* position of the benchmark process
    exit_status,   \* -1 while the process runs, else its exit status
    out,           \* lines written to stdout, in order
    err,           \* diagnostics written to stderr, in order
    pending,       \* case labels of main's switch still to be executed
    calls,         \* argument tuples measure() has been invoked with
    m,             \* the arguments of the running measure() call
    phase,         \* "none", "warm", "timed", "overhead" or "report"
    warm,          \* measure's local: number of warm-up cycles
    i,             \* loop counter of the running loop
    now,           \* last value CLOCK_MONOTONIC returned (ns)
    t0, t1,        \* the two clock readings of the running cycle
    total_ns,      \* action accumulator
    total_o,       \* overhead accumulator
    last_child,    \* scenario 4's pid register
    ready_zombie,  \* scenario 5's pid register
    p,             \* pid_t p local to the callback that has just forked
    workdir,       \* scenario 8's path buffer
    children,      \* pid -> "none" | "forked" | "running" | "zombie"
    dirs,          \* temporary directories created by the run that exist
    cyc,           \* history: events of the running cycle, in order
    cbs,           \* history: the last two callbacks invoked, oldest first
    count,         \* history: per phase, callbacks invoked and cycles done
    mean_ns,       \* measure's local: total_ns / iters, as [num, den]
    overhead_ns,   \* measure's local: total_o / iters, as [num, den]
    samples,       \* history: samples added to total_ns (ns), total_o (o)
    forks, reaps,  \* history: children forked / reaped by the callbacks
    osfail,        \* history: a monitored OS primitive has failed
    tolerated,     \* history: failure results after which the run went on
    waits,         \* history: waitpid calls of scenarios 4 and 5, by phase
    fr,            \* fork_run.c: the running helper call, its arguments, locals
    execs,         \* fork_run.c, history: the programs the children executed
    frh            \* fork_run.c, history: forks, waits and failures of the call

vars == <<argv, pc, exit_status, out, err, pending, calls, m, phase, warm, i,
          now, t0, t1, total_ns, total_o, mean_ns, overhead_ns, last_child,
          ready_zombie, p, workdir, children, dirs, cyc, cbs, count, samples,
          forks, reaps, osfail, tolerated, waits, fr, execs, frh>>

\* Groups used in UNCHANGED.
callvars == <<argv, pending, calls, m>>
loopvars == <<phase, warm, i>>
clockvars == <<now, t0, t1>>
sumvars == <<total_ns, total_o, mean_ns, overhead_ns, samples>>
procvars == <<last_child, ready_zombie, p, children, forks, reaps>>
dirvars == <<workdir, dirs>>
histvars == <<cyc, cbs, count>>
waitvars == <<tolerated, waits>>
frvars == <<fr, execs, frh>>

\* ------------------------------------------------------------ main's input
\* A C string is the sequence of its characters.
Str0 == <<"0">>
Str1 == <<"1">>
Str2 == <<"2">>
Str3 == <<"3">>
Str4 == <<"4">>
Str5 == <<"5">>
Str6 == <<"6">>
Str7 == <<"7">>
Str8 == <<"8">>
Str9 == <<"9">>
ProgName == <<"g", "t">>

\* The strings main() is started with as argv[1].
ArgStrings ==
    { Str0, Str1, Str2, Str3, Str4, Str5, Str6, Str7, Str8, Str9,
      << >>, <<"a", "b", "c">>, <<"3", "a", "b", "c">>, <<"1", "0">>,
      <<"-", "1">>, <<" ", "4">>, <<"+", "5">>, <<"0", "8">> }

\* The argument vectors: no argument, one argument, one argument too many.
ArgVectors ==
    { <<ProgName>> } \cup { <<ProgName, s>> : s \in ArgStrings }
                     \cup { <<ProgName, s, Str1>> : s \in {Str1, Str5} }

DigitChars == {"0", "1", "2", "3", "4", "5", "6", "7", "8", "9"}
SpaceChars == {" ", "\t", "\n"}

DigitVal(c) ==
    CASE c = "0" -> 0 [] c = "1" -> 1 [] c = "2" -> 2 [] c = "3" -> 3
      [] c = "4" -> 4 [] c = "5" -> 5 [] c = "6" -> 6 [] c = "7" -> 7
      [] c = "8" -> 8 [] c = "9" -> 9

RECURSIVE SkipSpaces(_)
SkipSpaces(s) ==
    IF s # << >> /\ Head(s) \in SpaceChars THEN SkipSpaces(Tail(s)) ELSE s

RECURSIVE LeadingDigits(_, _)
LeadingDigits(s, acc) ==
    IF s # << >> /\ Head(s) \in DigitChars
    THEN LeadingDigits(Tail(s), acc * 10 + DigitVal(Head(s)))
    ELSE acc

\* atoi(3): skip white space, take an optional sign, convert the leading
\* decimal digits and ignore whatever follows them; 0 when there are none.
Atoi(s) ==
    LET t == SkipSpaces(s) IN
    IF t = << >> THEN 0
    ELSE IF Head(t) = "-" THEN 0 - LeadingDigits(Tail(t), 0)
    ELSE IF Head(t) = "+" THEN LeadingDigits(Tail(t), 0)
    ELSE LeadingDigits(t, 0)

\* ---------------------------------------------------------- scenario table
\* The argument tuple of the measure() call in `case which:` of main's switch.
Scenario(which) ==
    CASE which = 1 -> [label |-> "scenario_1_empty_function_call",
                       setup |-> NULL, action |-> "act_call_empty",
                       teardown |-> NULL,
                       iters |-> 200000, subtract_overhead |-> TRUE]
      [] which = 2 -> [label |-> "scenario_2_drand48",
                       setup |-> NULL, action |-> "act_drand48",
                       teardown |-> NULL,
                       iters |-> 200000, subtract_overhead |-> TRUE]
      [] which = 3 -> [label |-> "scenario_3_getppid",
                       setup |-> NULL, action |-> "act_getppid",
                       teardown |-> NULL,
                       iters |-> 200000, subtract_overhead |-> TRUE]
      [] which = 4 -> [label |-> "scenario_4_fork_parent_return",
                       setup |-> NULL, action |-> "act_fork_parent_return",
                       teardown |-> "teardown_wait_for_last_child",
                       iters |-> 8000, subtract_overhead |-> TRUE]
      [] which = 5 -> [label |-> "scenario_5_waitpid_already_terminated",
                       setup |-> "setup_waitpid_ready",
                       action |-> "act_waitpid_ready",
                       teardown |-> "teardown_wait_ready",
                       iters |-> 2000, subtract_overhead |-> TRUE]
      [] which = 6 -> [label |-> "scenario_6_fork_child_exit_waitpid",
                       setup |-> NULL, action |-> "act_fork_child_exit_wait",
                       teardown |-> NULL,
                       iters |-> 4000, subtract_overhead |-> FALSE]
      [] which = 7 -> [label |-> "scenario_7_system_true",
                       setup |-> NULL, action |-> "act_system_true",
                       teardown |-> NULL,
                       iters |-> 2500, subtract_overhead |-> FALSE]
      [] which = 8 -> [label |-> "scenario_8_mkdir_rmdir",
                       setup |-> "setup_mkdir_rmdir",
                       action |-> "act_mkdir_rmdir", teardown |-> NULL,
                       iters |-> 20000, subtract_overhead |-> TRUE]

\* The case labels control passes through for `switch (which)`: every case
\* ends in `break`, so it is the one label selected (default for the rest).
CasesRun_fallthrough(which) ==
    IF which \in 1..7 THEN <<which, which + 1>> ELSE <<which>>
CasesRun(which) == <<which>>

\* The table's iteration counts are 2000..200000; the loops are run with at
\* most MaxIters cycles, the other five arguments are passed as they are.
RunArgs(a) == [a EXCEPT !.iters = Min(a.iters, MaxIters)]

NoArgs == [label |-> "", setup |-> NULL, action |-> NULL, teardown |-> NULL,
           iters |-> 0, subtract_overhead |-> FALSE]

\* ------------------------------------------------------- operating system
\* clock_gettime(CLOCK_MONOTONIC): -1 stands for a failed call, any other
\* result is a reading that is not below the previous one.
ClockResults_steps_back(n) ==
    {-1} \cup { Min(n + d, MaxClock) : d \in 0..MaxTick }
         \cup { IF n > 0 THEN n - 1 ELSE 0 }
ClockResults(n) == {-1} \cup { Min(n + d, MaxClock) : d \in 0..MaxTick }

\* fork() as seen by the parent: -1, or the pid of the new child.
ForkResults(ch) == {-1} \cup { q \in Pids : ch[q] = "none" }
AfterFork(ch, q) == IF q > 0 THEN [ch EXCEPT ![q] = "running"] ELSE ch

\* The child a waitpid(pid, &st, 0) call can collect: pid itself, or any
\* child when pid is -1.
Waitable(ch, pid) ==
    IF pid = -1 THEN { q \in Pids : ch[q] # "none" }
    ELSE { q \in Pids : q = pid /\ ch[q] # "none" }

\* What nanosleep(&ts, NULL) can return: 0 after the interval, or -1/EINTR
\* when a signal handler cut it short.
NanosleepResults ==
    {[r |-> 0, errno |-> ""], [r |-> -1, errno |-> "EINTR"]}

\* What waitpid(pid, &st, 0) can return: the pid of a terminated child,
\* which is thereby reaped; -1/ECHILD when there is no such child; -1 with
\* another errno (interrupted). While the child runs the call blocks: the
\* success result is not available.
WaitpidResults(ch, pid) ==
    { [r |-> q, errno |-> "", ch |-> [ch EXCEPT ![q] = "none"]] :
          q \in { c \in Waitable(ch, pid) : ch[c] = "zombie" } }
    \cup (IF Waitable(ch, pid) = {}
          THEN { [r |-> -1, errno |-> "ECHILD", ch |-> ch] } ELSE {})
    \cup { [r |-> -1, errno |-> "EINTR", ch |-> ch] }

NChildren(ch) == Cardinality({ q \in Pids : ch[q] # "none" })

\* ------------------------------------------------------- harness helpers
Phases == {"warm", "timed", "overhead"}
Kinds == {"setup", "action", "teardown", "cycle"}

\* uint64_t warm = iters/10 + 1;
WarmCount_max(n) == IF n \div 10 > 1 THEN n \div 10 ELSE 1
WarmCount(n) == n \div 10 + 1

\* if (iters == 0) ...
ZeroIters_never(n) == FALSE
ZeroIters(n) == n = 0

\* The statements of a loop body, in program order, per loop: the position
\* that follows `step` in the body of the loop of phase ph.
StepAfter_late_t0(ph, step) ==
    CASE ph = "warm" ->
            (CASE step = "setup" -> "action" [] step = "action" -> "teardown"
               [] step = "teardown" -> "accum")
      [] ph = "timed" ->
            (CASE step = "setup" -> "action" [] step = "action" -> "t0"
               [] step = "t0" -> "t1" [] step = "t1" -> "teardown"
               [] step = "teardown" -> "accum")
      [] ph = "overhead" ->
            (CASE step = "setup" -> "t0" [] step = "t0" -> "t1"
               [] step = "t1" -> "teardown" [] step = "teardown" -> "accum")
StepAfter_no_overhead_teardown(ph, step) ==
    CASE ph = "warm" ->
            (CASE step = "setup" -> "action" [] step = "action" -> "teardown"
               [] step = "teardown" -> "accum")
      [] ph = "timed" ->
            (CASE step = "setup" -> "t0" [] step = "t0" -> "action"
               [] step = "action" -> "t1" [] step = "t1" -> "teardown"
               [] step = "teardown" -> "accum")
      [] ph = "overhead" ->
            (CASE step = "setup" -> "t0" [] step = "t0" -> "t1"
               [] step = "t1" -> "accum")
StepAfter_action_in_overhead(ph, step) ==
    CASE ph = "warm" ->
            (CASE step = "setup" -> "action" [] step = "action" -> "teardown"
               [] step = "teardown" -> "accum")
      [] ph \in {"timed", "overhead"} ->
            (CASE step = "setup" -> "t0" [] step = "t0" -> "action"
               [] step = "action" -> "t1" [] step = "t1" -> "teardown"
               [] step = "teardown" -> "accum")
StepAfter(ph, step) ==
    CASE ph = "warm" ->
            (CASE step = "setup" -> "action" [] step = "action" -> "teardown"
               [] step = "teardown" -> "accum")
      [] ph = "timed" ->
            (CASE step = "setup" -> "t0" [] step = "t0" -> "action"
               [] step = "action" -> "t1" [] step = "t1" -> "teardown"
               [] step = "teardown" -> "accum")
      [] ph = "overhead" ->
            (CASE step = "setup" -> "t0" [] step = "t0" -> "t1"
               [] step = "t1" -> "teardown" [] step = "teardown" -> "accum")

\* The number of cycles the loop of phase ph runs.
LoopBound(ph) == IF ph = "warm" THEN warm ELSE m.iters

\* uint64_t arithmetic is modulo 2^64. The model wraps at 2^30, far above
\* every value the bounded clock reaches, so that a difference or a sum that
\* wraps around shows as it does in the program: as a huge value.
Wrap64 == 2^30

\* t1 - t0 on uint64_t
Elapsed(a, b) == (a - b) % Wrap64

\* total += sample on uint64_t
Add64(a, b) == (a + b) % Wrap64

\* A double is kept as the exact quotient [num, den] it is computed from,
\* den > 0. mean_ns - overhead_ns:
RatSub(x, y) ==
    [num |-> x.num * y.den - y.num * x.den, den |-> x.den * y.den]

\* x and y are the same number.
RatEq(x, y) == x.num * y.den = y.num * x.den

\* printf("%.3f", x): x rounded to the nearest thousandth, given in
\* thousandths. (A tie needs a denominator that 16 divides, which the
\* iteration counts of the model do not reach.)
Fmt3(x) ==
    IF x.num >= 0
    THEN (2000 * x.num + x.den) \div (2 * x.den)
    ELSE 0 - ((2000 * (0 - x.num) + x.den) \div (2 * x.den))

\* printf("iters,%" PRIu64 "\n", iters);
PrintedIters_with_warm(a, w) == a.iters + w
PrintedIters(a, w) == a.iters

Line(k, v) == [kind |-> k, val |-> v]

\* The printf calls that end measure().
Report_overhead_always(a, w, mean, ovh) ==
    <<Line("label", a.label), Line("iters", PrintedIters(a, w)),
      Line("mean_ns_total", mean), Line("mean_ns_overhead", ovh),
      Line("mean_ns_subtracted", RatSub(mean, ovh)), Line("blank", "")>>
Report(a, w, mean, ovh) ==
    <<Line("label", a.label), Line("iters", PrintedIters(a, w)),
      Line("mean_ns_total", mean)>>
    \o (IF a.subtract_overhead
        THEN <<Line("mean_ns_overhead", ovh),
               Line("mean_ns_subtracted", RatSub(mean, ovh))>>
        ELSE << >>)
    \o <<Line("blank", "")>>

\* exit(st) after a diagnostic on stderr.
Die_status0(st, msg) ==
    /\ pc' = "exited"
    /\ exit_status' = 0
    /\ err' = Append(err, msg)
    /\ out' = out
Die(st, msg) ==
    /\ pc' = "exited"
    /\ exit_status' = st
    /\ err' = Append(err, msg)
    /\ out' = out

\* Control moves on inside the process.
Goto(next) ==
    /\ pc' = next
    /\ UNCHANGED <<exit_status, out, err>>

\* History: a waitpid call of the callback in the slot `kind` returned w.
Waited(kind, w) ==
    waits' = [waits EXCEPT ![phase][kind] =
                 [calls |-> @.calls + 1,
                  reaped |-> @.reaped + (IF w.r > 0 THEN 1 ELSE 0),
                  echild |-> @.echild
                      + (IF w.r < 0 /\ w.errno = "ECHILD" THEN 1 ELSE 0)]]

\* History: the primitive `prim` failed with errno e and the run goes on.
Tolerate(prim, e) == tolerated' = tolerated \cup {<<prim, e>>}

\* `reg = -1`: the pid register after it is cleared.
Cleared_kept(reg) == reg
Cleared(reg) == -1

\* `errno != ECHILD` negated: the failure that teardown_wait_ready lets pass.
NoSuchChild_any(w) == TRUE
NoSuchChild(w) == w.errno = "ECHILD"

\* History: callback `name` is invoked in the slot `kind` of the cycle.
Invoke(kind, name) ==
    /\ cyc' = Append(cyc, name)
    /\ cbs' = <<cbs[2], kind>>
    /\ count' = [count EXCEPT ![phase][kind] = @ + 1]

\* fork_run.c: no helper call is running.
NoCall ==
    [fn |-> "none", pc |-> "none", command |-> "", argv_base |-> << >>,
     count |-> 0, out_fd |-> -1, err_fd |-> -1, fds |-> {}, base_len |-> 0,
     pids |-> NULL, pidv |-> << >>, i |-> 0, pid |-> -1,
     child_i |-> [q \in Pids |-> 0]]

\* ------------------------------------------------------------------- Init
InitCommon ==
    /\ exit_status = -1
    /\ out = << >>
    /\ err = << >>
    /\ phase = "none"
    /\ warm = 0
    /\ i = 0
    /\ now = 0
    /\ t0 = 0
    /\ t1 = 0
    /\ total_ns = 0
    /\ total_o = 0
    /\ mean_ns = [num |-> 0, den |-> 1]
    /\ overhead_ns = [num |-> 0, den |-> 1]
    /\ last_child = -1
    /\ ready_zombie = -1
    /\ p = -1
    /\ workdir = ""
    /\ children = [q \in Pids |-> "none"]
    /\ dirs = 0
    /\ cyc = << >>
    /\ cbs = <<"none", "none">>
    /\ count = [ph \in Phases |-> [k \in Kinds |-> 0]]
    /\ samples = [ns |-> 0, o |-> 0]
    /\ forks = 0
    /\ reaps = 0
    /\ osfail = FALSE
    /\ execs = {}
    /\ frh = [forked |-> << >>, waited |-> << >>, failed |-> {}]
    /\ tolerated = {}
    /\ waits = [ph \in Phases |-> [k \in {"action", "teardown"} |->
                    [calls |-> 0, reaped |-> 0, echild |-> 0]]]

\* The program is started with an argument vector.
Init ==
    /\ InitCommon
    /\ argv \in ArgVectors
    /\ pc = "main"
    /\ fr = NoCall
    /\ pending = << >>
    /\ calls = << >>
    /\ m = NoArgs

\* measure() is entered with one of the callback triples of the table, any
\* iteration count and either flag.
MeasureInputs ==
    { [Scenario(w) EXCEPT !.iters = n, !.subtract_overhead = b] :
          w \in 1..8, n \in 0..MaxIters, b \in BOOLEAN }

InitMeasure ==
    /\ InitCommon
    /\ argv = <<ProgName>>
    /\ pc = "measure"
    /\ fr = NoCall
    /\ pending = << >>
    /\ m \in MeasureInputs
    /\ calls = <<m>>

\* what a callback leaves alone
cbframe == <<callvars, loopvars, clockvars, sumvars>>

\* ------------------------------------------------------------------ driver
\* int main(int argc, char** argv), up to the switch.
Main ==
    /\ pc = "main"
    /\ IF Len(argv) # 2
       THEN /\ pc' = "exited"
            /\ exit_status' = 2
            /\ err' = Append(err, "usage")
            /\ pending' = pending
       ELSE /\ pc' = "switch"
            /\ pending' = CasesRun(Atoi(argv[2]))
            /\ UNCHANGED <<exit_status, err>>
    /\ UNCHANGED <<argv, calls, m, out, loopvars, clockvars, sumvars, procvars,
                   dirvars, histvars, osfail>>
    /\ UNCHANGED <<waitvars, frvars>>

\* switch (which) { case 1..8: measure(...); break; default: usage; return 2; }
\* and the `return 0` after it.
Switch ==
    /\ pc = "switch"
    /\ IF pending = << >>
       THEN /\ pc' = "exited"
            /\ exit_status' = 0
            /\ UNCHANGED <<err, pending, calls, m>>
       ELSE IF Head(pending) \in 1..8
       THEN /\ pc' = "measure"
            /\ m' = RunArgs(Scenario(Head(pending)))
            /\ calls' = Append(calls, Scenario(Head(pending)))
            /\ pending' = Tail(pending)
            /\ UNCHANGED <<exit_status, err>>
       ELSE /\ pc' = "exited"
            /\ exit_status' = 2
            /\ err' = Append(err, "usage")
            /\ UNCHANGED <<pending, calls, m>>
    /\ UNCHANGED <<argv, out, loopvars, clockvars, sumvars, procvars, dirvars,
                   histvars, osfail>>
    /\ UNCHANGED <<waitvars, frvars>>

\* ----------------------------------------------------------------- harness
\* measure(): the precondition check and the set-up of the warm-up loop.
MeasureEntry ==
    /\ pc = "measure"
    /\ IF ZeroIters(m.iters)
       THEN /\ Die(2, "iters must be > 0")
            /\ UNCHANGED loopvars
       ELSE /\ Goto("loop")
            /\ warm' = WarmCount(m.iters)
            /\ phase' = "warm"
            /\ i' = 0
    /\ UNCHANGED <<callvars, clockvars, sumvars, procvars, dirvars, histvars,
                   osfail>>
    /\ UNCHANGED <<waitvars, frvars>>

\* if (subtract_overhead) { ... }
SubtractOverhead_always(a) == TRUE
SubtractOverhead(a) == a.subtract_overhead

\* The loop tests `i < warm`, `i < iters`, and what follows each loop.
Loop ==
    /\ pc = "loop"
    /\ IF i < LoopBound(phase)
       THEN /\ Goto("setup")
            /\ cyc' = << >>
            /\ UNCHANGED <<loopvars, sumvars, cbs, count>>
       ELSE /\ UNCHANGED histvars
            /\ CASE phase = "warm" ->
                      /\ Goto("loop")
                      /\ phase' = "timed"
                      /\ i' = 0
                      /\ total_ns' = 0
                      /\ samples' = [samples EXCEPT !.ns = 0]
                      /\ UNCHANGED <<warm, total_o, mean_ns, overhead_ns>>
                 [] phase = "timed" ->
                      /\ mean_ns' = [num |-> total_ns, den |-> m.iters]
                      /\ overhead_ns' = [num |-> 0, den |-> 1]
                      /\ IF SubtractOverhead(m)
                         THEN /\ Goto("loop")
                              /\ phase' = "overhead"
                              /\ i' = 0
                              /\ total_o' = 0
                              /\ samples' = [samples EXCEPT !.o = 0]
                         ELSE /\ Goto("report")
                              /\ phase' = "report"
                              /\ UNCHANGED <<i, total_o, samples>>
                      /\ UNCHANGED <<warm, total_ns>>
                 [] phase = "overhead" ->
                      /\ overhead_ns' = [num |-> total_o, den |-> m.iters]
                      /\ Goto("report")
                      /\ phase' = "report"
                      /\ UNCHANGED <<warm, i, total_ns, total_o, mean_ns,
                                     samples>>
    /\ UNCHANGED <<callvars, clockvars, procvars, dirvars, osfail>>
    /\ UNCHANGED <<waitvars, frvars>>

\* if (setup_each) ... with setup_each == NULL
setup_absent ==
    /\ pc = "setup"
    /\ m.setup = NULL
    /\ Goto(StepAfter(phase, "setup"))
    /\ UNCHANGED <<cbframe, procvars, dirvars, histvars, osfail>>
    /\ UNCHANGED <<waitvars, frvars>>

\* if (teardown_each) ... with teardown_each == NULL
teardown_absent ==
    /\ pc = "teardown"
    /\ m.teardown = NULL
    /\ Goto(StepAfter(phase, "teardown"))
    /\ UNCHANGED <<cbframe, procvars, dirvars, histvars, osfail>>
    /\ UNCHANGED <<waitvars, frvars>>

\* uint64_t t0 = nsecs_now();
ReadT0 ==
    /\ pc = "t0"
    /\ \E r \in ClockResults(now) :
          IF r < 0
          THEN /\ Die(1, "clock_gettime")
               /\ osfail' = TRUE
               /\ UNCHANGED <<clockvars, histvars>>
          ELSE /\ Goto(StepAfter(phase, "t0"))
               /\ now' = r
               /\ t0' = r
               /\ cyc' = Append(cyc, "t0")
               /\ UNCHANGED <<t1, cbs, count, osfail>>
    /\ UNCHANGED <<callvars, loopvars, sumvars, procvars, dirvars>>
    /\ UNCHANGED <<waitvars, frvars>>

\* uint64_t t1 = nsecs_now();
ReadT1 ==
    /\ pc = "t1"
    /\ \E r \in ClockResults(now) :
          IF r < 0
          THEN /\ Die(1, "clock_gettime")
               /\ osfail' = TRUE
               /\ UNCHANGED <<clockvars, histvars>>
          ELSE /\ Goto(StepAfter(phase, "t1"))
               /\ now' = r
               /\ t1' = r
               /\ cyc' = Append(cyc, "t1")
               /\ UNCHANGED <<t0, cbs, count, osfail>>
    /\ UNCHANGED <<callvars, loopvars, sumvars, procvars, dirvars>>
    /\ UNCHANGED <<waitvars, frvars>>

\* total_ns += (t1 - t0); / total_o += (t1 - t0); and the loop's ++i.
Accum ==
    /\ pc = "accum"
    /\ Goto("loop")
    /\ i' = i + 1
    /\ count' = [count EXCEPT ![phase]["cycle"] = @ + 1]
    /\ CASE phase = "warm" -> UNCHANGED <<total_ns, total_o, samples>>
         [] phase = "timed" ->
              /\ total_ns' = Add64(total_ns, Elapsed(t1, t0))
              /\ samples' = [samples EXCEPT !.ns = @ + 1]
              /\ total_o' = total_o
         [] phase = "overhead" ->
              /\ total_o' = Add64(total_o, Elapsed(t1, t0))
              /\ samples' = [samples EXCEPT !.o = @ + 1]
              /\ total_ns' = total_ns
    /\ UNCHANGED <<callvars, phase, warm, clockvars, mean_ns, overhead_ns,
                   procvars, dirvars, cyc, cbs, osfail>>
    /\ UNCHANGED <<waitvars, frvars>>

\* The printf calls of measure(), and its return to main.
PrintReport ==
    /\ pc = "report"
    /\ pc' = "switch"
    /\ out' = out \o Report(m, warm, mean_ns, overhead_ns)
    /\ UNCHANGED <<exit_status, err, callvars, loopvars, clockvars, sumvars,
                   procvars, dirvars, histvars, osfail>>
    /\ UNCHANGED <<waitvars, frvars>>

\* --------------------------------------------------------------- scenarios
dir_template == "/tmp/gtXXXXXX"

\* An action that touches no fixture state (scenarios 1, 2, 3): it writes its
\* result to a volatile sink, which nothing reads.
SinkAction(name) ==
    /\ pc = "action"
    /\ m.action = name
    /\ Invoke("action", name)
    /\ Goto(StepAfter(phase, "action"))
    /\ UNCHANGED <<cbframe, procvars, dirvars, osfail>>
    /\ UNCHANGED <<waitvars, frvars>>

act_call_empty == SinkAction("act_call_empty")
act_drand48 == SinkAction("act_drand48")
act_getppid == SinkAction("act_getppid")

\* 4) fork() return in parent
act_fork_parent_return ==
    /\ pc = "action"
    /\ m.action = "act_fork_parent_return"
    /\ Invoke("action", "act_fork_parent_return")
    /\ \E q \in ForkResults(children) :
          IF q < 0
          THEN /\ Die(1, "fork")
               /\ osfail' = TRUE
               /\ UNCHANGED procvars
          ELSE /\ Goto(StepAfter(phase, "action"))
               /\ children' = AfterFork(children, q)
               /\ last_child' = q
               /\ forks' = forks + 1
               /\ UNCHANGED <<ready_zombie, p, reaps, osfail>>
    /\ UNCHANGED <<cbframe, dirvars>>
    /\ UNCHANGED <<waitvars, frvars>>

\* What waitpid leaves of the children when teardown has collected one.
Reaped_leak(w) == children
Reaped(w) == w.ch

teardown_wait_for_last_child ==
    /\ pc = "teardown"
    /\ m.teardown = "teardown_wait_for_last_child"
    /\ Invoke("teardown", "teardown_wait_for_last_child")
    /\ IF last_child > 0
       THEN \E w \in WaitpidResults(children, last_child) :
               /\ Waited("teardown", w)
               /\ IF w.r < 0
                  THEN /\ Die(1, "waitpid")
                       /\ osfail' = TRUE
                       /\ UNCHANGED procvars
                  ELSE /\ Goto(StepAfter(phase, "teardown"))
                       /\ children' = Reaped(w)
                       /\ reaps' = reaps + 1
                       /\ last_child' = Cleared(last_child)
                       /\ UNCHANGED <<ready_zombie, p, forks, osfail>>
       ELSE /\ Goto(StepAfter(phase, "teardown"))
            /\ UNCHANGED <<procvars, osfail, waits>>
    /\ UNCHANGED <<cbframe, dirvars, tolerated, frvars>>

\* 5) waitpid already-terminated: fork(), then ...
setup_waitpid_ready ==
    /\ pc = "setup"
    /\ m.setup = "setup_waitpid_ready"
    /\ Invoke("setup", "setup_waitpid_ready")
    /\ \E q \in ForkResults(children) :
          IF q < 0
          THEN /\ Die(1, "fork")
               /\ osfail' = TRUE
               /\ UNCHANGED procvars
          ELSE /\ Goto("setup_sleep")
               /\ children' = AfterFork(children, q)
               /\ p' = q
               /\ forks' = forks + 1
               /\ UNCHANGED <<last_child, ready_zombie, reaps, osfail>>
    /\ UNCHANGED <<cbframe, dirvars>>
    /\ UNCHANGED <<waitvars, frvars>>

\* ... nanosleep(2 ms), whose result is not looked at, and ready_zombie = p.
\* The child may or may not have exited when the sleep ends.
setup_waitpid_ready_sleep ==
    /\ pc = "setup_sleep"
    /\ \E s \in NanosleepResults :
          IF s.r < 0 THEN Tolerate("nanosleep", s.errno)
                     ELSE UNCHANGED tolerated
    /\ Goto(StepAfter(phase, "setup"))
    /\ ready_zombie' = p
    /\ UNCHANGED <<cbframe, last_child, p, children, forks, reaps, dirvars,
                   histvars, osfail, waits, frvars>>

act_waitpid_ready ==
    /\ pc = "action"
    /\ m.action = "act_waitpid_ready"
    /\ Invoke("action", "act_waitpid_ready")
    /\ \E w \in WaitpidResults(children, ready_zombie) :
          /\ Waited("action", w)
          /\ IF w.r # ready_zombie
             THEN /\ Die(1, "waitpid")
                  /\ osfail' = TRUE
                  /\ children' = w.ch
                  /\ reaps' = reaps + (IF w.r > 0 THEN 1 ELSE 0)
             ELSE /\ Goto(StepAfter(phase, "action"))
                  /\ children' = w.ch
                  /\ reaps' = reaps + 1
                  /\ UNCHANGED osfail
    /\ UNCHANGED <<cbframe, last_child, ready_zombie, p, forks, dirvars,
                   tolerated, frvars>>

teardown_wait_ready ==
    /\ pc = "teardown"
    /\ m.teardown = "teardown_wait_ready"
    /\ Invoke("teardown", "teardown_wait_ready")
    /\ IF ready_zombie > 0
       THEN \E w \in WaitpidResults(children, ready_zombie) :
               /\ Waited("teardown", w)
               /\ IF w.r < 0 /\ ~NoSuchChild(w)
                  THEN /\ Die(1, "waitpid")
                       /\ osfail' = TRUE
                       /\ UNCHANGED <<procvars, tolerated>>
                  ELSE /\ Goto(StepAfter(phase, "teardown"))
                       /\ children' = w.ch
                       /\ reaps' = reaps + (IF w.r > 0 THEN 1 ELSE 0)
                       /\ ready_zombie' = Cleared(ready_zombie)
                       /\ IF w.r < 0 THEN Tolerate("waitpid", w.errno)
                                     ELSE UNCHANGED tolerated
                       /\ UNCHANGED <<last_child, p, forks, osfail>>
       ELSE /\ Goto(StepAfter(phase, "teardown"))
            /\ UNCHANGED <<procvars, osfail, waitvars>>
    /\ UNCHANGED <<cbframe, dirvars, frvars>>

\* 6) child exits + waitpid: fork(), then ...
act_fork_child_exit_wait ==
    /\ pc = "action"
    /\ m.action = "act_fork_child_exit_wait"
    /\ Invoke("action", "act_fork_child_exit_wait")
    /\ \E q \in ForkResults(children) :
          IF q < 0
          THEN /\ Die(1, "fork")
               /\ osfail' = TRUE
               /\ UNCHANGED procvars
          ELSE /\ Goto("action_wait")
               /\ children' = AfterFork(children, q)
               /\ p' = q
               /\ forks' = forks + 1
               /\ UNCHANGED <<last_child, ready_zombie, reaps, osfail>>
    /\ UNCHANGED <<cbframe, dirvars>>
    /\ UNCHANGED <<waitvars, frvars>>

\* ... waitpid(p, &st, 0)
act_fork_child_exit_wait_reap ==
    /\ pc = "action_wait"
    /\ m.action = "act_fork_child_exit_wait"
    /\ \E w \in WaitpidResults(children, p) :
          IF w.r < 0
          THEN /\ Die(1, "waitpid")
               /\ osfail' = TRUE
               /\ UNCHANGED procvars
          ELSE /\ Goto(StepAfter(phase, "action"))
               /\ children' = w.ch
               /\ reaps' = reaps + 1
               /\ UNCHANGED <<last_child, ready_zombie, p, forks, osfail>>
    /\ UNCHANGED <<cbframe, dirvars, histvars>>
    /\ UNCHANGED <<waitvars, frvars>>

\* 7) system("/bin/true"): system() forks a shell; when the fork fails it
\* returns -1, else ...
act_system_true ==
    /\ pc = "action"
    /\ m.action = "act_system_true"
    /\ Invoke("action", "act_system_true")
    /\ \E q \in ForkResults(children) :
          IF q < 0
          THEN /\ Die(1, "system")
               /\ osfail' = TRUE
               /\ UNCHANGED procvars
          ELSE /\ Goto("action_wait")
               /\ children' = AfterFork(children, q)
               /\ p' = q
               /\ forks' = forks + 1
               /\ UNCHANGED <<last_child, ready_zombie, reaps, osfail>>
    /\ UNCHANGED <<cbframe, dirvars>>
    /\ UNCHANGED <<waitvars, frvars>>

\* ... it waits for the shell and returns its status, or -1 when the wait
\* fails.
act_system_true_wait ==
    /\ pc = "action_wait"
    /\ m.action = "act_system_true"
    /\ \E w \in WaitpidResults(children, p) :
          IF w.r < 0
          THEN /\ Die(1, "system")
               /\ osfail' = TRUE
               /\ UNCHANGED procvars
          ELSE /\ Goto(StepAfter(phase, "action"))
               /\ children' = w.ch
               /\ reaps' = reaps + 1
               /\ UNCHANGED <<last_child, ready_zombie, p, forks, osfail>>
    /\ UNCHANGED <<cbframe, dirvars, histvars>>
    /\ UNCHANGED <<waitvars, frvars>>

\* 8) mkdir + rmdir
setup_mkdir_rmdir ==
    /\ pc = "setup"
    /\ m.setup = "setup_mkdir_rmdir"
    /\ Invoke("setup", "setup_mkdir_rmdir")
    /\ Goto(StepAfter(phase, "setup"))
    /\ workdir' = dir_template
    /\ UNCHANGED <<cbframe, procvars, dirs, osfail>>
    /\ UNCHANGED <<waitvars, frvars>>

\* strcpy(buf, workdir); mkdtemp(buf): fails on a template that does not end
\* in XXXXXX, and may fail on any.
act_mkdir_rmdir ==
    /\ pc = "action"
    /\ m.action = "act_mkdir_rmdir"
    /\ Invoke("action", "act_mkdir_rmdir")
    /\ \E ok \in (IF workdir = dir_template THEN BOOLEAN ELSE {FALSE}) :
          IF ~ok
          THEN /\ Die(1, "mkdtemp")
               /\ osfail' = TRUE
               /\ UNCHANGED dirs
          ELSE /\ Goto("action_rmdir")
               /\ dirs' = dirs + 1
               /\ UNCHANGED osfail
    /\ UNCHANGED <<cbframe, procvars, workdir>>
    /\ UNCHANGED <<waitvars, frvars>>

\* The number of directories of the run after a successful rmdir(buf).
rmdir_keeps(d) == d
rmdir(d) == d - 1

\* rmdir(buf)
act_mkdir_rmdir_rmdir ==
    /\ pc = "action_rmdir"
    /\ \E ok \in BOOLEAN :
          IF ~ok
          THEN /\ Die(1, "rmdir")
               /\ osfail' = TRUE
               /\ UNCHANGED dirs
          ELSE /\ Goto(StepAfter(phase, "action"))
               /\ dirs' = rmdir(dirs)
               /\ UNCHANGED osfail
    /\ UNCHANGED <<cbframe, procvars, workdir, histvars>>
    /\ UNCHANGED <<waitvars, frvars>>

\* A forked child: `if (p == 0) { _exit(0); }` (the shell of system() ends
\* the same way).
ChildExit_never ==
    /\ FALSE
    /\ UNCHANGED vars
ChildExit ==
    /\ \E q \in Pids :
          /\ children[q] = "running"
          /\ children' = [children EXCEPT ![q] = "zombie"]
    /\ UNCHANGED <<argv, pc, exit_status, out, err, pending, calls, m, phase,
                   warm, i, now, t0, t1, total_ns, total_o, mean_ns,
                   overhead_ns, last_child, ready_zombie, p, workdir, dirs,
                   cyc, cbs, count, samples, forks, reaps, osfail, tolerated,
                   waits, fr, execs, frh>>

\* ------------------------------------------------------------- the program
Callbacks ==
    \/ setup_absent
    \/ setup_waitpid_ready
    \/ setup_waitpid_ready_sleep
    \/ setup_mkdir_rmdir
    \/ act_call_empty
    \/ act_drand48
    \/ act_getppid
    \/ act_fork_parent_return
    \/ act_waitpid_ready
    \/ act_fork_child_exit_wait
    \/ act_fork_child_exit_wait_reap
    \/ act_system_true
    \/ act_system_true_wait
    \/ act_mkdir_rmdir
    \/ act_mkdir_rmdir_rmdir
    \/ teardown_absent
    \/ teardown_wait_for_last_child
    \/ teardown_wait_ready

NextMeasure ==
    \/ MeasureEntry
    \/ Loop
    \/ ReadT0
    \/ ReadT1
    \/ Accum
    \/ PrintReport
    \/ Callbacks
    \/ ChildExit

Next ==
    \/ Main
    \/ Switch
    \/ NextMeasure

\* The program run from main().
Spec == Init /\ [][Next]_vars

\* measure() called on its own, with any arguments.
SpecMeasure == InitMeasure /\ [][NextMeasure]_vars

\* A step of the process itself in which no primitive fails: a call that
\* can return successfully does return.
Progress ==
    /\ Main \/ Switch \/ MeasureEntry \/ Loop \/ ReadT0 \/ ReadT1 \/ Accum
          \/ PrintReport \/ Callbacks
    /\ osfail' = osfail

\* The program run from main() by a scheduler that keeps running the
\* process while it is not blocked, and lets every forked child, which has
\* only _exit(0) to execute, reach it. Failures of primitives stay possible
\* at every call but are not forced.
SpecFair ==
    Init /\ [][Next]_vars /\ WF_vars(Progress) /\ WF_vars(ChildExit)

\* ============================================================= fork_run.c
\* The helper's two functions are called by a program outside the sources,
\* with arguments drawn from these sets.
Commands == {"true", "exit 3"}
ArgvBases == {<<"worker">>, <<"worker", "-n">>}
Counts == (0 - 1)..MaxCount

\* snprintf(idxbuf, sizeof(idxbuf), "%d", i): the decimal digits of i.
DigitChar(d) == CHOOSE c \in DigitChars : DigitVal(c) = d

RECURSIVE Itoa(_)
Itoa(n) ==
    IF n < 0 THEN <<"-">> \o Itoa(0 - n)
    ELSE IF n < 10 THEN <<DigitChar(n)>>
    ELSE Itoa(n \div 10) \o <<DigitChar(n % 10)>>

\* open(path, O_WRONLY | O_CREAT | O_TRUNC, 0666): -1, or the lowest
\* descriptor that is not open (0, 1 and 2 are).
OpenResults(fds) ==
    {-1} \cup { n \in 3..4 : n \notin fds /\ \A k \in 3..(n - 1) : k \in fds }

\* malloc(): NULL, or a block on the heap.
MallocResults == {NULL, "heap"}

\* Where a child's standard stream goes after `if (fd >= 0) dup2(fd, ...)`.
Redirected(fd, path) == IF fd >= 0 THEN path ELSE "inherited"

\* History of the helper call.
Failed(prim) == [frh EXCEPT !.failed = @ \cup {prim}]

InitForkRun ==
    /\ InitCommon
    /\ argv = <<ProgName>>
    /\ pc = "fork_run"
    /\ pending = << >>
    /\ calls = << >>
    /\ m = NoArgs
    /\ \/ \E c \in Commands :
             fr = [NoCall EXCEPT !.fn = "writeoutput", !.pc = "open_out",
                                 !.command = c]
       \/ \E n \in Counts, b \in ArgvBases :
             fr = [NoCall EXCEPT !.fn = "parallelwriteoutput",
                                 !.pc = "open_out", !.count = n,
                                 !.argv_base = b]

\* What a step of the helper leaves alone.
gtvars ==
    <<argv, pc, exit_status, out, err, pending, calls, m, phase, warm, i, now,
      t0, t1, total_ns, total_o, mean_ns, overhead_ns, last_child,
      ready_zombie, p, workdir, dirs, cyc, cbs, count, samples, forks, reaps,
      osfail, tolerated, waits>>

\* ---- writeoutput(command, out_path, err_path)
\* int out_fd = open(out_path, ...);
writeoutput_open_out ==
    /\ fr.fn = "writeoutput" /\ fr.pc = "open_out"
    /\ \E fd \in OpenResults(fr.fds) :
          /\ fr' = [fr EXCEPT !.pc = "open_err", !.out_fd = fd,
                              !.fds = IF fd >= 0 THEN @ \cup {fd} ELSE @]
          /\ frh' = IF fd < 0 THEN Failed("open") ELSE frh
    /\ UNCHANGED <<gtvars, children, execs>>

\* int err_fd = open(err_path, ...);
writeoutput_open_err ==
    /\ fr.fn = "writeoutput" /\ fr.pc = "open_err"
    /\ \E fd \in OpenResults(fr.fds) :
          /\ fr' = [fr EXCEPT !.pc = "fork", !.err_fd = fd,
                              !.fds = IF fd >= 0 THEN @ \cup {fd} ELSE @]
          /\ frh' = IF fd < 0 THEN Failed("open") ELSE frh
    /\ UNCHANGED <<gtvars, children, execs>>

\* pid_t pid = fork();
writeoutput_fork ==
    /\ fr.fn = "writeoutput" /\ fr.pc = "fork"
    /\ \E q \in ForkResults(children) :
          /\ fr' = [fr EXCEPT !.pc = "close", !.pid = q]
          /\ children' = IF q > 0 THEN [children EXCEPT ![q] = "forked"]
                                  ELSE children
          /\ frh' = IF q < 0 THEN Failed("fork")
                    ELSE [frh EXCEPT
                             !.forked = Append(@, [pid |-> q, i |-> 0])]
    /\ UNCHANGED <<gtvars, execs>>

\* The child: the dup2 and close calls, execl("/bin/sh", "sh", "-c",
\* command, NULL), and _exit(127) when execl returns.
writeoutput_child ==
    /\ fr.fn = "writeoutput"
    /\ \E q \in Pids :
          /\ children[q] = "forked"
          /\ \E ok \in BOOLEAN :
                IF ok
                THEN /\ children' = [children EXCEPT ![q] = "running"]
                     /\ execs' = execs \cup
                           {[pid |-> q, path |-> "/bin/sh",
                             argv |-> <<"sh", "-c", fr.command>>,
                             stdout |-> Redirected(fr.out_fd, "out_path"),
                             stderr |-> Redirected(fr.err_fd, "err_path")]}
                ELSE /\ children' = [children EXCEPT ![q] = "zombie"]
                     /\ execs' = execs
    /\ UNCHANGED <<gtvars, fr, frh>>

\* The parent: if (out_fd >= 0) close(out_fd); if (err_fd >= 0) close(err_fd);
writeoutput_close ==
    /\ fr.fn = "writeoutput" /\ fr.pc = "close"
    /\ fr' = [fr EXCEPT !.pc = "wait", !.fds = @ \ {fr.out_fd, fr.err_fd}]
    /\ UNCHANGED <<gtvars, children, execs, frh>>

\* if (pid > 0) { (void)waitpid(pid, NULL, 0); } and the return.
writeoutput_wait ==
    /\ fr.fn = "writeoutput" /\ fr.pc = "wait"
    /\ IF fr.pid > 0
       THEN \E w \in WaitpidResults(children, fr.pid) :
               /\ children' = w.ch
               /\ frh' = [frh EXCEPT
                             !.waited = Append(@, [pid |-> fr.pid, r |-> w.r])]
       ELSE UNCHANGED <<children, frh>>
    /\ fr' = [fr EXCEPT !.pc = "returned"]
    /\ UNCHANGED <<gtvars, execs>>

\* ---- parallelwriteoutput(count, argv_base, out_path)
\* int out_fd = open(out_path, ...); and the count of argv_base's entries.
parallelwriteoutput_open ==
    /\ fr.fn = "parallelwriteoutput" /\ fr.pc = "open_out"
    /\ \E fd \in OpenResults(fr.fds) :
          /\ fr' = [fr EXCEPT !.pc = "malloc", !.out_fd = fd,
                              !.fds = IF fd >= 0 THEN @ \cup {fd} ELSE @,
                              !.base_len = Len(fr.argv_base)]
          /\ frh' = IF fd < 0 THEN Failed("open") ELSE frh
    /\ UNCHANGED <<gtvars, children, execs>>

\* pid_t *pids = NULL; if (count > 0) pids = malloc(...);
parallelwriteoutput_malloc ==
    /\ fr.fn = "parallelwriteoutput" /\ fr.pc = "malloc"
    /\ IF fr.count > 0
       THEN \E a \in MallocResults :
               /\ fr' = [fr EXCEPT !.pc = "loop", !.pids = a, !.i = 0]
               /\ frh' = IF a = NULL THEN Failed("malloc") ELSE frh
       ELSE /\ fr' = [fr EXCEPT !.pc = "loop", !.i = 0]
            /\ frh' = frh
    /\ UNCHANGED <<gtvars, children, execs>>

\* The element i of the array after `if (pids) pids[i] = pid;`: the entries
\* are written in the order 0, 1, ... and read only after the loop.
StorePid(f, q) == IF f.pids # NULL THEN Append(f.pidv, q) ELSE f.pidv

\* One turn of `for (i = 0; i < count; i++)`: pid = fork(), and in the
\* parent the store of pid.
parallelwriteoutput_fork ==
    /\ fr.fn = "parallelwriteoutput" /\ fr.pc = "loop"
    /\ fr.i < fr.count
    /\ \E q \in ForkResults(children) :
          /\ fr' = [fr EXCEPT !.pid = q, !.pidv = StorePid(fr, q),
                              !.i = @ + 1,
                              !.child_i = IF q > 0
                                          THEN [@ EXCEPT ![q] = fr.i] ELSE @]
          /\ children' = IF q > 0 THEN [children EXCEPT ![q] = "forked"]
                                  ELSE children
          /\ frh' = IF q < 0 THEN Failed("fork")
                    ELSE [frh EXCEPT
                             !.forked = Append(@, [pid |-> q, i |-> fr.i])]
    /\ UNCHANGED <<gtvars, execs>>

\* The child of turn i: dup2 and close, argv = malloc(...), the copy of
\* argv_base, the index string, execv(argv_base[0], argv), and _exit(127)
\* when execv returns. When malloc returns NULL the copy writes through a
\* null pointer and the child is killed.
parallelwriteoutput_child ==
    /\ fr.fn = "parallelwriteoutput"
    /\ \E q \in Pids :
          /\ children[q] = "forked"
          /\ \E a \in MallocResults, ok \in BOOLEAN :
                IF a # NULL /\ ok
                THEN /\ children' = [children EXCEPT ![q] = "running"]
                     /\ execs' = execs \cup
                           {[pid |-> q, path |-> fr.argv_base[1],
                             argv |-> SubSeq(fr.argv_base, 1, fr.base_len)
                                         \o <<Itoa(fr.child_i[q])>>,
                             stdout |-> Redirected(fr.out_fd, "out_path"),
                             stderr |-> "inherited"]}
                ELSE /\ children' = [children EXCEPT ![q] = "zombie"]
                     /\ execs' = execs
    /\ UNCHANGED <<gtvars, fr, frh>>

\* The loop ends; if (out_fd >= 0) close(out_fd);
parallelwriteoutput_close ==
    /\ fr.fn = "parallelwriteoutput" /\ fr.pc = "loop"
    /\ ~(fr.i < fr.count)
    /\ fr' = [fr EXCEPT !.pc = "wait", !.fds = @ \ {fr.out_fd}, !.i = 0]
    /\ UNCHANGED <<gtvars, children, execs, frh>>

\* if (pids) { one turn of the second loop:
\* if (pids[i] > 0) (void)waitpid(pids[i], NULL, 0);
parallelwriteoutput_wait ==
    /\ fr.fn = "parallelwriteoutput" /\ fr.pc = "wait"
    /\ fr.pids # NULL
    /\ fr.i < fr.count
    /\ IF fr.pidv[fr.i + 1] > 0
       THEN \E w \in WaitpidResults(children, fr.pidv[fr.i + 1]) :
               /\ children' = w.ch
               /\ frh' = [frh EXCEPT
                             !.waited = Append(@, [pid |-> fr.pidv[fr.i + 1],
                                                   r |-> w.r])]
       ELSE UNCHANGED <<children, frh>>
    /\ fr' = [fr EXCEPT !.i = @ + 1]
    /\ UNCHANGED <<gtvars, execs>>

\* ... free(pids); } and the return.
parallelwriteoutput_return ==
    /\ fr.fn = "parallelwriteoutput" /\ fr.pc = "wait"
    /\ fr.pids = NULL \/ ~(fr.i < fr.count)
    /\ fr' = [fr EXCEPT !.pc = "returned",
                        !.pids = IF @ = NULL THEN NULL ELSE "freed"]
    /\ UNCHANGED <<gtvars, children, execs, frh>>

NextForkRun ==
    \/ writeoutput_open_out
    \/ writeoutput_open_err
    \/ writeoutput_fork
    \/ writeoutput_child
    \/ writeoutput_close
    \/ writeoutput_wait
    \/ parallelwriteoutput_open
    \/ parallelwriteoutput_malloc
    \/ parallelwriteoutput_fork
    \/ parallelwriteoutput_child
    \/ parallelwriteoutput_close
    \/ parallelwriteoutput_wait
    \/ parallelwriteoutput_return
    \/ ChildExit

\* One call of a function of the helper, with its children.
SpecForkRun == InitForkRun /\ [][NextForkRun]_vars

\* ============================================================ properties
IsPrefix(s, t) == Len(s) <= Len(t) /\ SubSeq(t, 1, Len(s)) = s
Opt(cb) == IF cb = NULL THEN << >> ELSE <<cb>>

\* The process is inside the body of a loop of measure().
InCycle ==
    pc \in {"setup", "setup_sleep", "t0", "action", "action_wait",
            "action_rmdir", "t1", "teardown", "accum"}

\* The order of events the claims give for one cycle of each loop.
WarmOrder == Opt(m.setup) \o <<m.action>> \o Opt(m.teardown)
TimedOrder == Opt(m.setup) \o <<"t0", m.action, "t1">> \o Opt(m.teardown)
OverheadOrder == Opt(m.setup) \o <<"t0", "t1">> \o Opt(m.teardown)

\* How often a callback that may be absent runs in n cycles.
Times(cb, n) == IF cb = NULL THEN 0 ELSE n

\* ---- C1
\* C1 as stated: for iterations > 0, measure() has run exactly
\* max(iterations/10, 1) warm-up cycles when the timed phase begins.
C1_WarmupIsMaxTenthOne ==
    phase = "timed" =>
        count["warm"]["cycle"] =
            (IF m.iters \div 10 > 1 THEN m.iters \div 10 ELSE 1)

\* C1 amended: for iterations > 0, measure() runs exactly iterations/10 + 1
\* warm-up cycles (integer division) of setup -> action -> teardown, all of
\* them before the first timed cycle.
C1_WarmupCycles ==
    /\ phase = "warm" =>
          /\ count["warm"]["cycle"] = i
          /\ i <= m.iters \div 10 + 1
          /\ \A k \in Kinds : count["timed"][k] = 0
          /\ InCycle => IsPrefix(cyc, WarmOrder)
          /\ pc = "accum" => cyc = WarmOrder
    /\ phase \in {"timed", "overhead", "report"} =>
          /\ count["warm"]["cycle"] = m.iters \div 10 + 1
          /\ count["warm"]["action"] = m.iters \div 10 + 1
          /\ count["warm"]["setup"] = Times(m.setup, m.iters \div 10 + 1)
          /\ count["warm"]["teardown"] = Times(m.teardown, m.iters \div 10 + 1)

\* C1 witness: a timed cycle has run after the two warm-up cycles of a call
\* with at least ten iterations.
C1_Witness ==
    /\ phase = "timed"
    /\ m.iters >= 10
    /\ count["warm"]["cycle"] = 2
    /\ count["timed"]["cycle"] >= 1

\* ---- C2
\* The callbacks that are present, in the order of one triple.
Triple == Opt(IF m.setup = NULL THEN NULL ELSE "setup") \o <<"action">>
          \o Opt(IF m.teardown = NULL THEN NULL ELSE "teardown")
TripleNoAction == Opt(IF m.setup = NULL THEN NULL ELSE "setup")
                  \o Opt(IF m.teardown = NULL THEN NULL ELSE "teardown")

\* Callback b may directly follow callback a in repetitions of sequence t.
Follows(t, a, b) ==
    \/ b = "none"
    \/ t # << >> /\ a = "none" /\ b = t[1]
    \/ \E k \in 1..Len(t) : t[k] = a /\ t[(k % Len(t)) + 1] = b

\* In a timed cycle: setup, read start, action, read end, teardown.
TimedCycleOrder ==
    (phase = "timed" /\ InCycle) =>
        /\ IsPrefix(cyc, TimedOrder)
        /\ pc = "accum" => cyc = TimedOrder

\* C2 as stated: the timed order, and over the whole run the callbacks are
\* invoked as repeated setup, action, teardown triples.
C2_TriplesWholeRun ==
    /\ TimedCycleOrder
    /\ Follows(Triple, cbs[1], cbs[2])

\* C2 amended: in every timed cycle the events occur in the order setup (if
\* present), read start time, action, read end time, teardown (if present),
\* so setup and teardown never run between the two clock reads; through the
\* warm-up and timed phases the callbacks are invoked strictly as repeated
\* setup, action, teardown triples, and in the overhead phase, where the
\* action is left out, as repeated setup, teardown pairs.
C2_CycleOrder ==
    /\ TimedCycleOrder
    /\ phase \in {"warm", "timed"} => Follows(Triple, cbs[1], cbs[2])
    /\ phase = "overhead" =>
          \/ Follows(Triple, cbs[1], cbs[2])
          \/ Follows(TripleNoAction, cbs[1], cbs[2])
    /\ count["overhead"]["setup"] + count["overhead"]["teardown"] >= 2 =>
          Follows(TripleNoAction, cbs[1], cbs[2])

\* C2 witness: a timed cycle with all three callbacks has run to its end,
\* after an earlier one.
C2_Witness ==
    /\ phase = "timed"
    /\ pc = "accum"
    /\ i >= 1
    /\ m.setup # NULL
    /\ m.teardown # NULL
    /\ Len(cyc) = 5

\* ---- C3
\* C3: warm-up cycles never contribute to the report: the accumulator is
\* zero when the first timed cycle starts, takes one sample per timed cycle,
\* holds `iterations` samples when it is divided, and the printed iters
\* value is the requested iteration count.
C3_WarmupExcluded ==
    /\ (phase = "timed" /\ i = 0 /\ pc \in {"loop", "setup"}) =>
          total_ns = 0 /\ samples.ns = 0
    /\ phase = "warm" => samples.ns = 0
    /\ phase = "timed" => samples.ns = i /\ i <= m.iters
    /\ phase \in {"overhead", "report"} =>
          /\ samples.ns = m.iters
          /\ mean_ns = [num |-> total_ns, den |-> m.iters]
    /\ (phase = "report" /\ pc # "report" /\ pc # "exited") =>
          /\ Len(out) >= 3
          /\ out[2].kind = "iters"
          /\ out[2].val = m.iters
          /\ out[3].kind = "mean_ns_total"
          /\ out[3].val = mean_ns

\* C3 witness: a report has been printed for a call with two warm-up cycles
\* and a non-zero sum.
C3_Witness ==
    /\ phase = "report"
    /\ Len(out) >= 3
    /\ m.iters >= 10
    /\ count["warm"]["cycle"] = 2
    /\ total_ns > 0

\* ---- C4
\* C4: the overhead phase runs iff subtract_overhead; it runs `iterations`
\* cycles, each with the setup and teardown of the timed phase in the same
\* places around the two clock reads, never the action; and it starts only
\* after all timed cycles.
C4_OverheadPhase ==
    /\ count["overhead"]["action"] = 0
    /\ (phase = "overhead" \/ \E k \in Kinds : count["overhead"][k] > 0) =>
          /\ m.subtract_overhead
          /\ count["timed"]["cycle"] = m.iters
    /\ (phase = "overhead" /\ InCycle) =>
          /\ IsPrefix(cyc, OverheadOrder)
          /\ pc = "accum" => cyc = OverheadOrder
    /\ phase = "overhead" => count["overhead"]["cycle"] = i /\ i <= m.iters
    /\ phase = "report" =>
          /\ count["overhead"]["cycle"] =
                (IF m.subtract_overhead THEN m.iters ELSE 0)
          /\ count["overhead"]["setup"] =
                Times(m.setup, count["overhead"]["cycle"])
          /\ count["overhead"]["teardown"] =
                Times(m.teardown, count["overhead"]["cycle"])

\* C4 witness: a call with setup, teardown and overhead subtraction has
\* finished its overhead phase.
C4_Witness ==
    /\ phase = "report"
    /\ m.subtract_overhead
    /\ m.setup # NULL
    /\ m.teardown # NULL
    /\ m.iters >= 2
    /\ count["overhead"]["cycle"] = m.iters

\* ---- C5
\* C5: in every state of every scenario and phase the benchmark process has
\* at most one forked child that is not yet reaped (running or zombie).
C5_AtMostOneChild == NChildren(children) <= 1

\* C5 witness: in the overhead phase of scenario 5 the child forked by setup
\* is a zombie waiting for teardown.
C5_Witness ==
    /\ phase = "overhead"
    /\ pc = "teardown"
    /\ m.teardown = "teardown_wait_ready"
    /\ \E q \in Pids : children[q] = "zombie"
    /\ NChildren(children) = 1

\* ---- C6
\* C6: in scenario 4 every child forked by the action is reaped by the
\* teardown of the same cycle: at every cycle boundary, and when the scenario
\* has completed with exit status 0, forks = reaps and no child is left.
C6_ForkedChildrenReaped ==
    (calls # << >> /\ calls[1].action = "act_fork_parent_return") =>
        /\ (pc \in {"loop", "report", "switch"}
            \/ (pc = "exited" /\ exit_status = 0)) =>
              /\ forks = reaps
              /\ NChildren(children) = 0
              /\ last_child = -1
        /\ forks - reaps \in {0, 1}
        /\ (pc = "exited" /\ exit_status = 0) =>
              forks = count["warm"]["action"] + count["timed"]["action"]

\* C6 witness: scenario 4 has exited with status 0 after forking.
C6_Witness ==
    /\ calls # << >>
    /\ calls[1].action = "act_fork_parent_return"
    /\ pc = "exited"
    /\ exit_status = 0
    /\ forks > 1
    /\ reaps = forks

\* ---- C7
\* A decimal numeral: an optional sign and one or more digits, nothing else.
IsNumeral(s) ==
    LET d == IF s # << >> /\ Head(s) \in {"+", "-"} THEN Tail(s) ELSE s
    IN  d # << >> /\ \A k \in 1..Len(d) : d[k] \in DigitChars

\* The invocations C7 calls invalid: a missing or extra argument, a string
\* that is not a numeral, a numeral whose value is outside 1..8.
InvalidInvocation ==
    \/ Len(argv) # 2
    \/ ~IsNumeral(SkipSpaces(argv[2]))
    \/ Atoi(argv[2]) \notin 1..8

\* C7 as stated: an invalid invocation never calls measure(), prints no
\* timing output, and ends with exit status 2.
C7_InvalidArgumentRejected ==
    InvalidInvocation =>
        /\ calls = << >>
        /\ out = << >>
        /\ pc = "exited" => exit_status = 2

\* ---- C8
\* The tuple main() passes for scenario index w, field by field.
OwnTuple(w, a) ==
    /\ a = Scenario(w)
    /\ (a.setup # NULL) = (w \in {5, 8})
    /\ (a.teardown # NULL) = (w \in {4, 5})
    /\ a.subtract_overhead = (w \notin {6, 7})
    /\ \A v \in (1..8) \ {w} :
          Scenario(v).label # a.label /\ Scenario(v).action # a.action

\* C8: for a scenario index in 1..8 main() invokes measure() exactly once,
\* with that index's own tuple, runs no second scenario, and returns exit
\* status 0 when the measurement completes.
C8_OneScenarioPerRun ==
    /\ Len(calls) <= 1
    /\ calls # << >> =>
          /\ Len(argv) = 2
          /\ Atoi(argv[2]) \in 1..8
          /\ OwnTuple(Atoi(argv[2]), calls[1])
          /\ m = RunArgs(calls[1])
    /\ (Len(argv) = 2 /\ Atoi(argv[2]) \in 1..8 /\ pc \notin {"main", "switch"})
          => Len(calls) = 1
    /\ (pc = "switch" /\ pending = << >>) => Len(calls) = 1 /\ out # << >>
    /\ pc = "exited" =>
          /\ exit_status = 0 <=> out # << >>
          /\ (calls # << >> /\ ~osfail) => exit_status = 0

\* C8 witness: scenario 5 has been measured once and main has returned 0.
C8_Witness ==
    /\ pc = "exited"
    /\ exit_status = 0
    /\ Len(calls) = 1
    /\ calls[1].label = "scenario_5_waitpid_already_terminated"
    /\ out # << >>

\* ---- C9
\* C9: when a monitored OS primitive fails during measurement the process
\* ends at once with exit status 1, with nothing of the report printed, and
\* no callback, clock read or cycle runs after it, in whichever phase.
C9_FailureIsFatal ==
    [][ /\ osfail' => /\ pc' = "exited"
                      /\ exit_status' = 1
                      /\ out' = << >>
        /\ osfail => UNCHANGED <<pc, exit_status, out, phase, i, cyc, cbs,
                                 count, forks, reaps, dirs>>
      ]_vars

\* C9 witness: a primitive has failed in the overhead phase and the process
\* has exited with status 1.
C9_Witness ==
    /\ osfail
    /\ phase = "overhead"
    /\ pc = "exited"
    /\ exit_status = 1
    /\ count["overhead"]["cycle"] >= 1

\* ---- C10
\* C10: measure() called with iterations == 0 ends the process with exit
\* status 2 before any callback or clock read and without any report.
C10_ZeroIterationsRejected ==
    (m.iters = 0 /\ pc # "measure") =>
        /\ pc = "exited"
        /\ exit_status = 2
        /\ out = << >>
        /\ cyc = << >>
        /\ cbs = <<"none", "none">>
        /\ \A ph \in Phases, k \in Kinds : count[ph][k] = 0
        /\ forks = 0
        /\ dirs = 0
        /\ phase = "none"

\* C10 witness: a call with iterations == 0 has exited.
C10_Witness ==
    /\ m.iters = 0
    /\ pc = "exited"
    /\ exit_status = 2
    /\ err # << >>

\* ---- C11
\* The kinds of the lines of a report, in order.
ReportKinds(sub) ==
    <<"label", "iters", "mean_ns_total">>
    \o (IF sub THEN <<"mean_ns_overhead", "mean_ns_subtracted">> ELSE << >>)
    \o <<"blank">>

\* C11: a completed measurement has printed exactly one report: label,
\* iters, mean_ns_total, then mean_ns_overhead and mean_ns_subtracted iff
\* overhead subtraction is enabled, then a blank line. The label, the iters
\* value and the sequence of line kinds are functions of the arguments alone,
\* so two runs of the same scenario print the same ones.
C11_ReportFormat ==
    /\ pc \in {"switch"} => out # << >>
    /\ out # << >> =>
          /\ phase = "report"
          /\ Len(out) = Len(ReportKinds(m.subtract_overhead))
          /\ \A k \in 1..Len(out) :
                out[k].kind = ReportKinds(m.subtract_overhead)[k]
          /\ out[1].val = m.label
          /\ out[2].val = m.iters
          /\ out[Len(out)].val = ""

\* C11 witness: a measurement without overhead subtraction has printed its
\* four lines.
C11_Witness ==
    /\ pc = "switch"
    /\ ~m.subtract_overhead
    /\ Len(out) = 4
    /\ m.setup # NULL

\* ---- C12
\* C12: the clock never steps back, so every sample t1 - t0 is taken without
\* wrap-around and is >= 0, the sums are >= 0 and no more than the time that
\* has passed, and mean_ns_total >= 0; with overhead subtraction the value
\* printed as mean_ns_subtracted is (action sum - overhead sum) / iterations,
\* which is mean_ns_total - mean_ns_overhead (to a thousandth, as printed)
\* and may be negative.
C12_MeansAndSubtraction ==
    /\ (pc \in {"teardown", "accum"} /\ phase \in {"timed", "overhead"}) =>
          /\ t0 <= t1
          /\ Elapsed(t1, t0) = t1 - t0
    /\ 0 <= total_ns /\ 0 <= total_o
    /\ phase = "timed" => total_ns <= now
    /\ phase = "overhead" => total_ns + total_o <= now
    /\ mean_ns.num >= 0 /\ mean_ns.den > 0
    /\ out # << >> =>
          /\ out[3].val = [num |-> total_ns, den |-> m.iters]
          /\ Fmt3(out[3].val) >= 0
          /\ m.subtract_overhead =>
                /\ out[4].val = [num |-> total_o, den |-> m.iters]
                /\ RatEq(out[5].val,
                         [num |-> total_ns - total_o, den |-> m.iters])
                /\ RatEq(out[5].val, RatSub(out[3].val, out[4].val))
                /\ Fmt3(out[5].val) - (Fmt3(out[3].val) - Fmt3(out[4].val))
                      \in {-1, 0, 1}

\* C12 witness: a report with a negative subtracted mean that is not a whole
\* number of nanoseconds.
C12_Witness ==
    /\ out # << >>
    /\ m.subtract_overhead
    /\ total_ns < total_o
    /\ m.iters = 3
    /\ Fmt3(out[5].val) = 0 - 667

\* ---- C13
\* C13: in scenario 8 a directory made by the action is removed by the same
\* action invocation: a directory of the run exists only between the mkdtemp
\* and the rmdir of one action (or after a failure that ended the run with
\* status 1), never more than one exists, and at every cycle boundary and
\* after exit status 0 none exists; the timed and warm-up actions made one
\* directory each.
C13_NoLeftoverDirectories ==
    (calls # << >> /\ calls[1].action = "act_mkdir_rmdir") =>
        /\ dirs \in {0, 1}
        /\ dirs # 0 =>
              \/ pc = "action_rmdir"
              \/ pc = "exited" /\ exit_status = 1 /\ osfail
        /\ pc \in {"loop", "setup", "action", "teardown", "accum", "report",
                   "switch"} => dirs = 0
        /\ (pc = "exited" /\ exit_status = 0) =>
              /\ dirs = 0
              /\ count["warm"]["action"] + count["timed"]["action"]
                    = WarmCount(m.iters) + m.iters

\* C13 witness: scenario 8 has completed with exit status 0 after its
\* actions made and removed directories.
C13_Witness ==
    /\ calls # << >> /\ calls[1].action = "act_mkdir_rmdir"
    /\ pc = "exited" /\ exit_status = 0
    /\ count["timed"]["action"] = m.iters
    /\ m.iters > 1
    /\ dirs = 0

\* ---- C14
\* C14: in scenario 5, whenever a warm-up or timed action is about to call
\* waitpid, the child forked by setup has already exited (is a zombie), so
\* the call does not have to block.
C14_ChildIsZombieAtAction ==
    (pc = "action" /\ m.action = "act_waitpid_ready") =>
        /\ ready_zombie \in Pids
        /\ children[ready_zombie] = "zombie"

ValidIndex == Len(argv) = 2 /\ Atoi(argv[2]) \in 1..8

\* C16: every run with a valid scenario index ends: it exits with status 0
\* with the report printed, or with status 1 after a failed primitive; it
\* never stays blocked in a waitpid.
C16_Terminates ==
    ValidIndex =>
        <>(/\ pc = "exited"
           /\ \/ exit_status = 0 /\ out # << >> /\ ~osfail
              \/ exit_status = 1 /\ out = << >> /\ osfail)

\* C16 witness: scenario 6, whose action blocks in waitpid until the child
\* has exited, has run to exit status 0.
C16_Witness ==
    /\ ValidIndex
    /\ calls # << >> /\ calls[1].action = "act_fork_child_exit_wait"
    /\ pc = "exited" /\ exit_status = 0
    /\ reaps = forks /\ forks > 1

\* ---- C19
\* The run is scenario 5.
IsScenario5 == calls # << >> /\ calls[1].action = "act_waitpid_ready"

\* The waitpid calls made so far in the slot `kind`, over the phases phs.
WaitSum(phs, kind, field) ==
    LET RECURSIVE Sum(_)
        Sum(S) == IF S = {} THEN 0
                  ELSE LET ph == CHOOSE x \in S : TRUE
                       IN  waits[ph][kind][field] + Sum(S \ {ph})
    IN  Sum(phs)

\* C19: in scenario 5 the warm-up and timed actions reap the child and the
\* teardown of the same cycle, waiting on the same pid, gets "no such child"
\* and never reaps; in the overhead phase there is no action and every
\* teardown that goes on has reaped the child of its setup. A run that exits
\* with status 0 has forked warm-up + 2 * iterations children and reaped
\* every one of them once.
C19_WhoReaps ==
    IsScenario5 =>
        /\ \A ph \in {"warm", "timed"} :
              /\ waits[ph]["teardown"].reaped = 0
              /\ waits[ph]["action"].echild = 0
              /\ ~osfail =>
                    /\ waits[ph]["action"].reaped = count[ph]["action"]
                    /\ waits[ph]["action"].calls = count[ph]["action"]
                    /\ waits[ph]["teardown"].echild = count[ph]["teardown"]
                    /\ waits[ph]["teardown"].calls = count[ph]["teardown"]
        /\ waits["overhead"]["action"].calls = 0
        /\ waits["overhead"]["teardown"].echild = 0
        /\ ~osfail =>
              /\ waits["overhead"]["teardown"].reaped
                    = count["overhead"]["teardown"]
              /\ waits["overhead"]["teardown"].calls
                    = count["overhead"]["teardown"]
        /\ reaps = WaitSum(Phases, "action", "reaped")
                      + WaitSum(Phases, "teardown", "reaped")
        /\ reaps <= forks
        /\ (pc = "exited" /\ exit_status = 0) =>
              /\ forks = WarmCount(m.iters) + 2 * m.iters
              /\ reaps = forks
              /\ NChildren(children) = 0

\* C19 witness: scenario 5 has exited with status 0 after overhead cycles in
\* which teardown reaped.
C19_Witness ==
    /\ IsScenario5
    /\ pc = "exited" /\ exit_status = 0
    /\ waits["overhead"]["teardown"].reaped = m.iters
    /\ waits["timed"]["teardown"].echild = m.iters
    /\ m.iters > 1

\* ---- C20
\* The run is scenario 4.
IsScenario4 == calls # << >> /\ calls[1].action = "act_fork_parent_return"

\* The callback `name` has been invoked in the running cycle.
InThisCycle(name) == \E k \in 1..Len(cyc) : cyc[k] = name

\* C20: the pid registers are clear at every cycle boundary. In scenario 4
\* last_child is -1 when a cycle starts and holds a pid only from the fork of
\* the action to the end of the teardown of the same cycle; in scenario 5
\* ready_zombie is -1 when a cycle starts and holds a pid only from the end
\* of setup to the end of teardown. The pid a teardown waits on was recorded
\* in its own cycle, and the teardowns of scenario 4's overhead phase, where
\* nothing forks, call waitpid not once.
C20_RegistersReset ==
    /\ IsScenario4 =>
          /\ ready_zombie = -1
          /\ last_child \in {-1} \cup Pids
          /\ pc \in {"loop", "setup", "t0", "action", "accum", "report",
                     "switch"} => last_child = -1
          /\ phase = "overhead" => last_child = -1
          /\ last_child > 0 =>
                /\ pc \in {"t1", "teardown", "exited"}
                /\ phase \in {"warm", "timed"}
                /\ children[last_child] # "none"
                /\ InThisCycle("act_fork_parent_return")
                /\ forks = reaps + 1
          /\ (pc \in {"t1", "teardown"} /\ phase \in {"warm", "timed"})
                => last_child > 0
          /\ waits["overhead"]["teardown"].calls = 0
          /\ ~osfail =>
                \A ph \in {"warm", "timed"} :
                    waits[ph]["teardown"].calls = count[ph]["teardown"]
    /\ IsScenario5 =>
          /\ last_child = -1
          /\ ready_zombie \in {-1} \cup Pids
          /\ pc \in {"loop", "setup", "setup_sleep", "accum", "report",
                     "switch"} => ready_zombie = -1
          /\ ready_zombie > 0 =>
                /\ pc \in {"t0", "action", "t1", "teardown", "exited"}
                /\ InThisCycle("setup_waitpid_ready")
                /\ ready_zombie = p
          /\ pc \in {"t0", "action", "t1", "teardown"} => ready_zombie > 0

\* C20 witness: scenario 4 is in a later overhead cycle: children were forked
\* and reaped in the phases before, and the overhead teardowns found the
\* register clear.
C20_Witness ==
    /\ IsScenario4
    /\ phase = "overhead"
    /\ pc = "accum"
    /\ count["overhead"]["teardown"] >= 2
    /\ waits["timed"]["teardown"].calls >= 2
    /\ last_child = -1

\* ---- C17
\* The fork() calls of the helper that returned a pid.
ForkedPids == { frh.forked[k].pid : k \in 1..Len(frh.forked) }

\* The pids the helper has called waitpid on.
WaitedPids == { frh.waited[k].pid : k \in 1..Len(frh.waited) }

\* C17: parallelwriteoutput returns only after it has waited for every
\* child it forked.
C17_ReturnsAfterWaitingForAll ==
    (fr.fn = "parallelwriteoutput" /\ fr.pc = "returned") =>
        ForkedPids \subseteq WaitedPids

\* ---- C18
\* C18: a helper call in which open() or fork() has failed does not return
\* to its caller.
C18_HelperFailureIsFatal ==
    fr.pc = "returned" => frh.failed \cap {"open", "fork"} = {}

====
